---- MODULE Spec2Model ----
(***************************************************************************)
(* dir_cleaner (src/src/lib.rs): `run` asks for a file name, collects with *)
(* `get_dir_files` every file of that name below a root directory, and     *)
(* lets the user delete listed files one at a time.                        *)
(*                                                                         *)
(* A file name is a sequence of characters, a path the sequence of names   *)
(* from the root directory down, and a line of user input a sequence of    *)
(* characters, so that trimming, parsing and name comparison are computed  *)
(* the way the code computes them.                                         *)
(***************************************************************************)
EXTENDS Integers, Sequences, FiniteSets, TLC

\* ------------------------------------------------------------- bounds
\* Deepest entry of a directory tree, and the most entries a tree holds.
MaxDepth == 3
MaxEntries == 5
\* The numbers the user may type are the single digits 0..MaxIndex.
MaxIndex == 4

\* The names entries may carry.
Names == {<<"t">>, <<"o">>}
\* The root directory named on the command line.
ROOT == <<>>

RECURSIVE PathsOfLen(_)
PathsOfLen(n) ==
    IF n = 0 THEN {ROOT}
    ELSE {Append(p, x) : p \in PathsOfLen(n - 1), x \in Names}
Paths == UNION {PathsOfLen(n) : n \in 1..MaxDepth}
Parent(p) == SubSeq(p, 1, Len(p) - 1)
BaseName(p) == p[Len(p)]

\* ------------------------------------------------------- the filesystem
\* A filesystem maps each path that holds something to what it holds: a
\* regular file, a directory, or something that is neither (a FIFO, a
\* socket, a dangling symbolic link).
EmptyDisk == <<>>
KindOn(d, p) == IF p \in DOMAIN d THEN d[p] ELSE "none"
IsDirOn(d, p) == p = ROOT \/ KindOn(d, p) = "dir"
Present(d) == DOMAIN d
ChildrenOn(d, p) == {q \in DOMAIN d : Parent(q) = p}
WithEntry(d, p, kd) == [q \in DOMAIN d \cup {p} |-> IF q = p THEN kd ELSE d[q]]
WithoutEntry(d, p) == [q \in DOMAIN d \ {p} |-> d[q]]

\* Every tree of regular files and directories with at most k entries.
RECURSIVE PlainDisks(_)
PlainDisks(k) ==
    IF k = 0 THEN {EmptyDisk}
    ELSE LET prev == PlainDisks(k - 1) IN
         prev \cup UNION {
            {WithEntry(d, p, kd) :
                kd \in {"file", "dir"},
                p \in {q \in Paths \ DOMAIN d : IsDirOn(d, Parent(q))}}
            : d \in prev}
AllPlainDisks == PlainDisks(MaxEntries)

\* One thing at most goes wrong with the filesystem in a run:
\*   special      the entry is neither a regular file nor a directory
\*   listErr      read_dir's iterator yields Err for the entry
\*   metaErr      DirEntry::metadata() fails for the entry
\*   createdErr   Metadata::created() fails for the file
\*   unreadable   read_dir fails for the directory (missing, permission
\*                denied, not a directory)
NoFault == [type |-> "none", path |-> ROOT]
FaultsOn(d) ==
    {NoFault}
    \cup {[type |-> "special", path |-> p] :
            p \in {q \in Present(d) : ChildrenOn(d, q) = {}}}
    \cup {[type |-> ty, path |-> p] :
            ty \in {"listErr", "metaErr"}, p \in Present(d)}
    \cup {[type |-> "createdErr", path |-> p] :
            p \in {q \in Present(d) : d[q] = "file"}}
    \cup {[type |-> "unreadable", path |-> p] :
            p \in {ROOT} \cup {q \in Present(d) : d[q] = "dir"}}

\* The orders in which read_dir may list the names of a directory.
ListingOrders ==
    {s \in [1..Cardinality(Names) -> Names] :
        \A i, j \in 1..Cardinality(Names) : i # j => s[i] # s[j]}

\* ------------------------------------------------------------ user input
Whitespace == {" ", "\n", "\t", "\r"}
Digits == <<"0", "1", "2", "3", "4", "5", "6", "7", "8", "9">>
DigitValue(c) == (CHOOSE i \in 1..10 : Digits[i] = c) - 1
IsDigit(c) == \E i \in 1..10 : Digits[i] = c

ArgLists == {<<>>, <<<<"d">>>>, <<<<"d">>, ROOT>>}
\* The name searched for. Trees and listing orders are closed under swapping
\* the two names, so searching for the other name adds no behaviour.
NameInputs == {<<" ", "t", "\n">>}
KeepInputs == {<<" ", "y", "\n">>, <<"Y", "\n">>, <<"n", "\n">>}
NumberInputs == {<<Digits[i + 1], "\n">> : i \in 0..MaxIndex}
LoopInputs ==
    NumberInputs
    \cup {<<" ", "d", "o", "n", "e", "\n">>, <<"D", "o", "n", "e", "\n">>,
          <<"-", "1", "\n">>, <<" ", "+", "1", "\n">>}

VARIABLES
    disk,        \* the filesystem now
    disk0,       \* the filesystem when run started
    listing,     \* the order read_dir lists names in
    fault,       \* what goes wrong with the filesystem, if anything
    pc,          \* where run is: "args", "ask_name", "ask_keep", "loop", "exit"
    directory,   \* run's `directory`
    file_name,   \* the trimmed name searched for
    files_info,  \* run's `files_info`, the working collection
    initial,     \* what get_dir_files returned
    answer,      \* the last line read from the user
    msg,         \* the last message printed
    result,      \* what run returned, once it has
    removed      \* the paths remove_file has deleted, in order

vars == <<disk, disk0, listing, fault, pc, directory, file_name, files_info,
          initial, answer, msg, result, removed>>

\* ------------------------------------------------------ results, errors
NoErr == [op |-> "none", path |-> ROOT]
IoErr(op, p) == [op |-> op, path |-> p]
ArgsError == [op |-> "args", path |-> ROOT]
Ok(fs) == [tag |-> "Ok", files |-> fs, err |-> NoErr]
Err(e) == [tag |-> "Err", files |-> <<>>, err |-> e]
Panic == [tag |-> "Panic", files |-> <<>>, err |-> NoErr]
Running == [tag |-> "Running", files |-> <<>>, err |-> NoErr]

\* ----------------------------------------------------------- str::trim
RECURSIVE TrimStart(_)
TrimStart(s) ==
    IF s # <<>> /\ Head(s) \in Whitespace THEN TrimStart(Tail(s)) ELSE s
RECURSIVE TrimEnd(_)
TrimEnd(s) ==
    IF s # <<>> /\ s[Len(s)] \in Whitespace
    THEN TrimEnd(SubSeq(s, 1, Len(s) - 1)) ELSE s
Trim(s) == TrimEnd(TrimStart(s))

\* str::parse::<usize>: an optional '+', then one or more digits. (The lines
\* typed here are far too short to overflow a usize.)
RECURSIVE DigitsValue(_)
DigitsValue(s) ==
    IF s = <<>> THEN 0
    ELSE 10 * DigitsValue(SubSeq(s, 1, Len(s) - 1)) + DigitValue(s[Len(s)])
Unsigned(s) == IF s # <<>> /\ Head(s) = "+" THEN Tail(s) ELSE s
IsNumber(s) ==
    /\ Unsigned(s) # <<>>
    /\ \A i \in 1..Len(Unsigned(s)) : IsDigit(Unsigned(s)[i])
\* parse::<usize>().unwrap_or(0): what does not parse counts as 0.
ParseUsize_OrZero(s) ==
    [ok |-> TRUE, value |-> IF IsNumber(s) THEN DigitsValue(Unsigned(s)) ELSE 0]
ParseUsize(s) ==
    IF IsNumber(s)
    THEN [ok |-> TRUE, value |-> DigitsValue(Unsigned(s))]
    ELSE [ok |-> FALSE, value |-> 0]

\* ------------------------------------------------------------ File
FileNew(name, folder, creation_date, path) ==
    [name |-> name, folder |-> folder, creation_date |-> creation_date,
     path |-> path]

\* The entry's creation time, formatted: one value per entry.
CreationDate(p) == <<"created", p>>

\* fs::remove_file on the record's path can succeed only if the path holds
\* something to unlink; whether it then does is the operating system's answer
\* (permissions, a read-only filesystem), either one at every call.
RemoveFileOutcomes(file) ==
    IF KindOn(disk, file.path) \in {"file", "other"} THEN {TRUE, FALSE} ELSE {FALSE}

\* ------------------------------------------------------ get_dir_files
\* fs::read_dir: the entries of the directory, in listing order.
ReadDirOk(path) ==
    /\ IsDirOn(disk, path)
    /\ fault # [type |-> "unreadable", path |-> path]
ReadDir(path) ==
    LET all == [i \in 1..Len(listing) |-> Append(path, listing[i])]
        There(p) == p \in Present(disk)
    IN SelectSeq(all, There)

\* dir_entry.filter(|f| f.is_ok()) left out: every listed item is taken.
EntryIsOk_Unfiltered(p) == TRUE
\* dir_entry.filter(|f| f.is_ok())
EntryIsOk(p) == fault # [type |-> "listErr", path |-> p]
MetadataOk(p) == fault # [type |-> "metaErr", path |-> p]
CreatedOk(p) == fault # [type |-> "createdErr", path |-> p]
IsFile(p) == KindOn(disk, p) = "file"
NotFile(p) == ~IsFile(p)
NameMatches(name, file_name_) == name = file_name_

RECURSIVE get_dir_files(_, _)
RECURSIVE ScanSubDirs(_, _, _)

get_dir_files(path, file_name_) ==
    IF ~ReadDirOk(path) THEN Err(IoErr("read_dir", path))
    ELSE
    LET dir_entry == SelectSeq(ReadDir(path), EntryIsOk)
        sub_dirs == SelectSeq(dir_entry, NotFile)
        regular == SelectSeq(dir_entry, IsFile)
        Wanted(p) == NameMatches(BaseName(p), file_name_)
        matching == SelectSeq(regular, Wanted)
        files == [i \in 1..Len(matching) |->
                    FileNew(BaseName(matching[i]), path,
                            CreationDate(matching[i]), matching[i])]
    IN  IF \/ \E i \in 1..Len(dir_entry) : ~MetadataOk(dir_entry[i])
           \/ \E i \in 1..Len(regular) : ~CreatedOk(regular[i])
        THEN Panic
        ELSE ScanSubDirs(files, sub_dirs, file_name_)

\* for sub_dir in sub_dirs { files.append(&mut get_dir_files(..)?) }
ScanSubDirs(files, sub_dirs, file_name_) ==
    IF sub_dirs = <<>> THEN Ok(files)
    ELSE LET sub == get_dir_files(Head(sub_dirs), file_name_) IN
         IF sub.tag # "Ok" THEN sub
         ELSE ScanSubDirs(files \o sub.files, Tail(sub_dirs), file_name_)

\* ------------------------------------------------------------ run
\* Vec::remove(i): the later records shift down, keeping their order.
swap_remove_Shift(v, i) ==
    IF i < 0 \/ i >= Len(v)
    THEN [ok |-> FALSE, file |-> FileNew(<<>>, ROOT, <<>>, ROOT), rest |-> v]
    ELSE [ok |-> TRUE,
          file |-> v[i + 1],
          rest |-> [j \in 1..(Len(v) - 1) |->
                      IF j >= i + 1 THEN v[j + 1] ELSE v[j]]]
\* Vec::swap_remove(i), i counted from 0: panics when i is out of bounds.
swap_remove(v, i) ==
    IF i < 0 \/ i >= Len(v)
    THEN [ok |-> FALSE, file |-> FileNew(<<>>, ROOT, <<>>, ROOT), rest |-> v]
    ELSE [ok |-> TRUE,
          file |-> v[i + 1],
          rest |-> [j \in 1..(Len(v) - 1) |->
                      IF j = i + 1 THEN v[Len(v)] ELSE v[j]]]

\* The bound test one too late: index > files_info.len() + 1.
OutOfRange_Late(index, len) == (index > len + 1) \/ (index <= 0)
\* (index >= files_info.len() + 1) || (index <= 0)
OutOfRange(index, len) == (index >= len + 1) \/ (index <= 0)

\* The entry number taken as the position: index instead of index - 1.
Slot_OffByOne(index) == index
\* &index - 1
Slot(index) == index - 1

\* answer.trim().eq_ignore_ascii_case("y")
KeepAll_AnyCase(cleaned) == cleaned \in {<<"y">>, <<"Y">>}
\* answer.trim().eq("y")
KeepAll(cleaned) == cleaned = <<"y">>
\* cleaned_answer.eq("done")
IsDone(cleaned) == cleaned = <<"d", "o", "n", "e">>

NamePrompt == "Please, provide the name of the file you want to search (including its file extension)"
KeepPrompt == "Do you want to keep every file? \n(y/n)"
LoopPrompt == "Please provide the number associated to the file you want to delete.\nWrite done to quit"
GoodBye == "Good Bye!"
InvalidNumber == "Invalid number provided."
NotListed == "Please provide one of the listed numbers!"
FileDeleted == "File deleted!"

Init ==
    /\ \E d \in AllPlainDisks : \E f \in FaultsOn(d) :
          /\ fault = f
          /\ disk = IF f.type = "special" THEN WithEntry(d, f.path, "other") ELSE d
    /\ disk0 = disk
    /\ listing \in ListingOrders
    /\ pc = "args"
    /\ directory = ROOT
    /\ file_name = <<>>
    /\ files_info = <<>>
    /\ initial = <<>>
    /\ answer = <<>>
    /\ msg = ""
    /\ result = Running
    /\ removed = <<>>

\* args.next(); let directory = match args.next() { None => return Err(..) }
ArgsMissing ==
    /\ pc = "args"
    /\ \E argv \in ArgLists : Len(argv) < 2
    /\ pc' = "exit"
    /\ result' = Err(ArgsError)
    /\ UNCHANGED <<disk, disk0, listing, fault, directory, file_name,
                   files_info, initial, answer, msg, removed>>

\* args.next(); let directory = match args.next() { Some(str) => str }
\* and the prompt for the file name is printed.
ArgsGiven ==
    /\ pc = "args"
    /\ \E argv \in ArgLists :
          /\ Len(argv) >= 2
          /\ directory' = argv[2]
    /\ pc' = "ask_name"
    /\ msg' = NamePrompt
    /\ UNCHANGED <<disk, disk0, listing, fault, file_name, files_info,
                   initial, answer, result, removed>>

\* get_dir_files(..).unwrap_or_default(): a failed traversal counts as one
\* that found nothing.
ScanFailed_Defaulted ==
    /\ pc = "ask_name"
    /\ \E input \in NameInputs :
          LET r == get_dir_files(directory, Trim(input)) IN
          /\ r.tag # "Ok"
          /\ answer' = input
          /\ file_name' = Trim(input)
    /\ pc' = "ask_keep"
    /\ msg' = KeepPrompt
    /\ UNCHANGED <<disk, disk0, listing, fault, directory, files_info,
                   initial, result, removed>>

\* The name is read; get_dir_files(&directory, input.trim())? returns its
\* error, or panics.
ScanFailed ==
    /\ pc = "ask_name"
    /\ \E input \in NameInputs :
          LET r == get_dir_files(directory, Trim(input)) IN
          /\ r.tag # "Ok"
          /\ answer' = input
          /\ file_name' = Trim(input)
          /\ result' = r
    /\ pc' = "exit"
    /\ UNCHANGED <<disk, disk0, listing, fault, directory, files_info,
                   initial, msg, removed>>

\* The name is read and get_dir_files succeeds: the entries are printed,
\* numbered from 1, and the user is asked whether to keep them all.
ScanOk ==
    /\ pc = "ask_name"
    /\ \E input \in NameInputs :
          LET r == get_dir_files(directory, Trim(input)) IN
          /\ r.tag = "Ok"
          /\ answer' = input
          /\ file_name' = Trim(input)
          /\ files_info' = r.files
          /\ initial' = r.files
    /\ pc' = "ask_keep"
    /\ msg' = KeepPrompt
    /\ UNCHANGED <<disk, disk0, listing, fault, directory, result, removed>>

\* if answer.trim().eq("y") { println!("Good Bye!"); return Ok(()); }
KeepEvery ==
    /\ pc = "ask_keep"
    /\ \E input \in KeepInputs :
          /\ KeepAll(Trim(input))
          /\ answer' = input
    /\ msg' = GoodBye
    /\ result' = Ok(<<>>)
    /\ pc' = "exit"
    /\ UNCHANGED <<disk, disk0, listing, fault, directory, file_name,
                   files_info, initial, removed>>

\* Any other answer enters the loop, which prints its prompt.
EnterLoop ==
    /\ pc = "ask_keep"
    /\ \E input \in KeepInputs :
          /\ ~KeepAll(Trim(input))
          /\ answer' = input
    /\ msg' = LoopPrompt
    /\ pc' = "loop"
    /\ UNCHANGED <<disk, disk0, listing, fault, directory, file_name,
                   files_info, initial, result, removed>>

\* A line the user may type in the loop, with what the loop makes of it:
\* let cleaned_answer = answer.trim(); cleaned_answer.parse::<usize>()
Read(input) ==
    [answer |-> input,
     cleaned_answer |-> Trim(input),
     index |-> ParseUsize(Trim(input))]
LoopReads == {Read(input) : input \in LoopInputs}

\* What one turn of the loop does with the line it read:
\*   "done"     the line is `done`
\*   "invalid"  the line is no number
\*   "range"    the number is not a listed one
\*   "delete"   the number is taken as an index
Verdict(read, len) ==
    IF IsDone(read.cleaned_answer) THEN "done"
    ELSE IF ~read.index.ok THEN "invalid"
    ELSE IF OutOfRange(read.index.value, len) THEN "range"
    ELSE "delete"

\* if cleaned_answer.eq("done") { println!("Good Bye!"); break; }
LoopDone ==
    /\ pc = "loop"
    /\ \E read \in LoopReads :
          /\ Verdict(read, Len(files_info)) = "done"
          /\ answer' = read.answer
    /\ msg' = GoodBye
    /\ result' = Ok(<<>>)
    /\ pc' = "exit"
    /\ UNCHANGED <<disk, disk0, listing, fault, directory, file_name,
                   files_info, initial, removed>>

\* Err(_) => { println!("Invalid number provided."); continue; }
LoopInvalid ==
    /\ pc = "loop"
    /\ \E read \in LoopReads :
          /\ Verdict(read, Len(files_info)) = "invalid"
          /\ answer' = read.answer
    /\ msg' = InvalidNumber
    /\ UNCHANGED <<disk, disk0, listing, fault, pc, directory, file_name,
                   files_info, initial, result, removed>>

\* { println!("Please provide one of the listed numbers!"); break; }
LoopOutOfRange ==
    /\ pc = "loop"
    /\ \E read \in LoopReads :
          /\ Verdict(read, Len(files_info)) = "range"
          /\ answer' = read.answer
    /\ msg' = NotListed
    /\ result' = Ok(<<>>)
    /\ pc' = "exit"
    /\ UNCHANGED <<disk, disk0, listing, fault, directory, file_name,
                   files_info, initial, removed>>

\* let file = &files_info[&index - 1]; file.delete()?; the record stays in
\* the collection.
LoopDeleted_KeepsRecord ==
    /\ pc = "loop"
    /\ \E read \in LoopReads :
          /\ Verdict(read, Len(files_info)) = "delete"
          /\ LET taken == swap_remove(files_info, Slot(read.index.value)) IN
             /\ taken.ok
             /\ TRUE \in RemoveFileOutcomes(taken.file)
             /\ disk' = WithoutEntry(disk, taken.file.path)
             /\ removed' = Append(removed, taken.file.path)
          /\ answer' = read.answer
    /\ msg' = FileDeleted
    /\ UNCHANGED <<disk0, listing, fault, pc, directory, file_name,
                   files_info, initial, result>>

\* let file = &files_info.swap_remove(&index - 1); file.delete()?;
\* println!("File deleted!");
LoopDeleted ==
    /\ pc = "loop"
    /\ \E read \in LoopReads :
          /\ Verdict(read, Len(files_info)) = "delete"
          /\ LET taken == swap_remove(files_info, Slot(read.index.value)) IN
             /\ taken.ok
             /\ TRUE \in RemoveFileOutcomes(taken.file)
             /\ files_info' = taken.rest
             /\ disk' = WithoutEntry(disk, taken.file.path)
             /\ removed' = Append(removed, taken.file.path)
          /\ answer' = read.answer
    /\ msg' = FileDeleted
    /\ UNCHANGED <<disk0, listing, fault, pc, directory, file_name, initial,
                   result>>

\* let _ = file.delete(); the failure is dropped and the loop goes on.
LoopAborted_Ignored ==
    /\ pc = "loop"
    /\ \E read \in LoopReads :
          /\ Verdict(read, Len(files_info)) = "delete"
          /\ LET taken == swap_remove(files_info, Slot(read.index.value)) IN
             /\ taken.ok
             /\ FALSE \in RemoveFileOutcomes(taken.file)
             /\ files_info' = taken.rest
          /\ answer' = read.answer
    /\ msg' = FileDeleted
    /\ UNCHANGED <<disk, disk0, listing, fault, pc, directory, file_name,
                   initial, result, removed>>

\* swap_remove panics, or remove_file fails and `?` returns its error.
LoopAborted ==
    /\ pc = "loop"
    /\ \E read \in LoopReads :
          /\ Verdict(read, Len(files_info)) = "delete"
          /\ LET taken == swap_remove(files_info, Slot(read.index.value)) IN
             /\ ~taken.ok \/ FALSE \in RemoveFileOutcomes(taken.file)
             /\ files_info' = taken.rest
             /\ result' = IF taken.ok
                          THEN Err(IoErr("remove_file", taken.file.path))
                          ELSE Panic
          /\ answer' = read.answer
    /\ pc' = "exit"
    /\ UNCHANGED <<disk, disk0, listing, fault, directory, file_name,
                   initial, msg, removed>>

Next ==
    \/ ArgsMissing
    \/ ArgsGiven
    \/ ScanFailed
    \/ ScanOk
    \/ KeepEvery
    \/ EnterLoop
    \/ LoopDone
    \/ LoopInvalid
    \/ LoopOutOfRange
    \/ LoopDeleted
    \/ LoopAborted

Spec == Init /\ [][Next]_vars

\* ------------------------------------------------------------ properties
\* What the properties speak of.
PathsOf(fs) == {fs[i].path : i \in 1..Len(fs)}
\* The regular files of a tree that carry the name.
MatchingFiles(d, name) ==
    {p \in Present(d) : d[p] = "file" /\ BaseName(p) = name}
\* p is q or lies below it.
Under(p, q) == Len(p) >= Len(q) /\ SubSeq(p, 1, Len(q)) = q
\* The traversal has just ended: run asks whether to keep every file, or has
\* returned the traversal's failure.
ScanEnded == pc = "ask_keep" \/ (pc = "exit" /\ msg = NamePrompt)
\* Every line the user may type, trimmed, with whether it is a number and
\* which.
Lines == NameInputs \cup KeepInputs \cup LoopInputs \cup {<<>>}
Meaning ==
    [line \in Lines |->
        [cleaned |-> Trim(line),
         number |-> IsNumber(Trim(line)),
         index |-> IF IsNumber(Trim(line))
                   THEN DigitsValue(Unsigned(Trim(line))) ELSE 0]]
\* The line being read in this step is `done`, is a number, and which, and
\* is the number of a listed record.
TypedDone == Meaning[answer'].cleaned = <<"d", "o", "n", "e">>
TypedNumber == Meaning[answer'].number
TypedIndex == Meaning[answer'].index
TypedListed ==
    /\ pc = "loop"
    /\ TypedNumber
    /\ TypedIndex >= 1
    /\ TypedIndex <= Len(files_info)

\* On a tree of regular files and readable directories, every filesystem
\* query answered, the traversal returns the files of the searched name.
TraversalOnPlainTrees ==
    (ScanEnded /\ fault.type = "none") =>
        /\ pc = "ask_keep"
        /\ PathsOf(initial) = MatchingFiles(disk0, file_name)
        /\ Len(initial) = Cardinality(MatchingFiles(disk0, file_name))

\* C1: for any directory tree, get_dir_files returns exactly the files of the
\* tree, at any depth, whose base name equals the target: no other file, no
\* directory, and an empty result (not an error) when no file matches. Stated
\* for the trees on which no filesystem call fails for an entry that is a
\* regular file or a directory; an entry may also be neither (a FIFO, a
\* dangling symbolic link).
C1_TraversalReturnsMatchingFiles ==
    (ScanEnded /\ fault.type \in {"none", "special"}) =>
        /\ pc = "ask_keep"
        /\ PathsOf(initial) = MatchingFiles(disk0, file_name)
        /\ Len(initial) = Cardinality(MatchingFiles(disk0, file_name))
        /\ \A i \in 1..Len(initial) : initial[i].name = file_name

\* C2: typing a listed number i whose file remove_file deletes takes exactly
\* the file of record i off the disk, leaves every other file, shrinks the
\* collection by one and goes on prompting; typing `done` then (or at any
\* prompt) ends run with Ok and changes neither the disk nor the collection.
C2_DeleteThenDone ==
    [][/\ (TypedListed /\ result'.tag # "Err") =>
            /\ KindOn(disk, files_info[TypedIndex].path) = "file"
            /\ disk' = WithoutEntry(disk, files_info[TypedIndex].path)
            /\ Len(files_info') = Len(files_info) - 1
            /\ pc' = "loop"
            /\ result' = Running
       /\ (pc = "loop" /\ TypedDone) =>
            /\ pc' = "exit"
            /\ result' = Ok(<<>>)
            /\ disk' = disk
            /\ files_info' = files_info
            /\ removed' = removed]_vars

\* C2's case: of three records one was deleted, then `done` ended run.
C2_Witness ==
    /\ pc = "exit"
    /\ result = Ok(<<>>)
    /\ Meaning[answer].cleaned = <<"d", "o", "n", "e">>
    /\ Len(initial) = 3
    /\ Len(removed) = 1
    /\ Len(files_info) = 2
    /\ KindOn(disk, removed[1]) = "none"
    /\ \A i \in 1..2 : KindOn(disk, files_info[i].path) = "file"

\* C3: in the loop a number outside 1..(number of remaining records), 0 and
\* any number above the count included, prints the not-listed message and
\* ends the loop: no record leaves the collection, no file is deleted, and
\* run returns Ok.
C3_OutOfRangeEndsLoop ==
    [][(/\ pc = "loop"
        /\ TypedNumber
        /\ (TypedIndex < 1 \/ TypedIndex > Len(files_info))) =>
            /\ msg' = NotListed
            /\ pc' = "exit"
            /\ result' = Ok(<<>>)
            /\ disk' = disk
            /\ files_info' = files_info
            /\ removed' = removed]_vars

\* C3's case: with two records left, the number just above the count was
\* typed and run ended.
C3_Witness ==
    /\ pc = "exit"
    /\ msg = NotListed
    /\ Len(files_info) = 2
    /\ Meaning[answer].number
    /\ Meaning[answer].index = 3
    /\ result = Ok(<<>>)

\* C4 as claimed: an entry whose metadata query fails is skipped, makes no
\* record, is not descended into and does not make the traversal fail.
C4_MetadataFailureSkipped ==
    (ScanEnded /\ fault.type = "metaErr") =>
        /\ pc = "ask_keep"
        /\ PathsOf(initial) =
             {p \in MatchingFiles(disk0, file_name) : ~Under(p, fault.path)}

\* C4, amended: an entry whose item in the directory listing is an error is
\* skipped: it makes no record, is not descended into, and the traversal
\* succeeds with the matching files outside it; an entry whose metadata
\* query fails is not skipped, the traversal panics.
C4_ListingErrorSkipped ==
    /\ (ScanEnded /\ fault.type = "listErr") =>
        /\ pc = "ask_keep"
        /\ PathsOf(initial) =
             {p \in MatchingFiles(disk0, file_name) : ~Under(p, fault.path)}
    /\ (ScanEnded /\ fault.type = "metaErr") =>
        /\ pc = "exit"
        /\ result = Panic

\* C4's case: a matching file's listing item was an error, and the traversal
\* returned the other matching files.
C4_Witness ==
    /\ pc = "ask_keep"
    /\ fault.type = "listErr"
    /\ fault.path \in MatchingFiles(disk0, file_name)
    /\ initial # <<>>
    /\ fault.path \notin PathsOf(initial)

\* C5: when the root directory cannot be read, the traversal yields the
\* read_dir error and no records, and run returns that very error before it
\* asks anything more: nothing is deleted.
C5_UnreadableRoot ==
    (/\ fault = [type |-> "unreadable", path |-> ROOT]
     /\ pc \notin {"args", "ask_name"}
     /\ result # Err(ArgsError)) =>
        /\ pc = "exit"
        /\ result = Err(IoErr("read_dir", directory))
        /\ msg = NamePrompt
        /\ initial = <<>>
        /\ files_info = <<>>
        /\ removed = <<>>
        /\ disk = disk0

\* C5's case: the root could not be read although files of the searched name
\* lie below it, and run has returned.
C5_Witness ==
    /\ fault = [type |-> "unreadable", path |-> ROOT]
    /\ pc = "exit"
    /\ result.err.op = "read_dir"
    /\ MatchingFiles(disk0, file_name) # {}

\* C6: answering the keep-all question with a line that trims to exactly `y`
\* ends run with Ok, the loop never entered and the disk as it was, every
\* file the traversal found still there; any other answer (`Y` too) enters
\* the loop.
C6_KeepAllChangesNothing ==
    [][/\ (pc = "ask_keep" /\ Meaning[answer'].cleaned = <<"y">>) =>
            /\ pc' = "exit"
            /\ result' = Ok(<<>>)
            /\ disk' = disk0
            /\ removed' = <<>>
            /\ files_info' = initial
            /\ \A i \in 1..Len(initial) :
                  KindOn(disk', initial[i].path) = "file"
       /\ (pc = "ask_keep" /\ Meaning[answer'].cleaned # <<"y">>) =>
            /\ pc' = "loop"
            /\ result' = Running]_vars

\* C6's case: the traversal found files and the answer was `y`.
C6_Witness ==
    /\ pc = "exit"
    /\ Meaning[answer].cleaned = <<"y">>
    /\ answer # <<"y">>
    /\ Len(initial) >= 2
    /\ result = Ok(<<>>)

\* C7: when remove_file fails for the record a listed number names, run
\* returns that error at once: the loop is left, nothing more is printed or
\* asked, no other record's file is deleted, and once run has returned
\* nothing changes any more.
C7_DeleteFailureAborts ==
    [][/\ (TypedListed /\ disk' = disk) =>
            /\ pc' = "exit"
            /\ result' = Err(IoErr("remove_file", files_info[TypedIndex].path))
            /\ removed' = removed
            /\ msg' = msg
       /\ (pc = "exit") => UNCHANGED vars
       /\ (result'.tag = "Err") => pc' = "exit"]_vars

\* C7's case: after one file was deleted, remove_file failed for a second
\* one, which is still on disk as are the files of the records left.
C7_Witness ==
    /\ pc = "exit"
    /\ result.tag = "Err"
    /\ result.err.op = "remove_file"
    /\ KindOn(disk, result.err.path) = "file"
    /\ Len(removed) = 1
    /\ Len(files_info) = 1
    /\ KindOn(disk, files_info[1].path) = "file"

\* C8: in the loop a line that is neither `done` nor a number prints the
\* invalid-number message and the loop prompts again: the collection and the
\* disk are as they were.
C8_NonNumericReprompts ==
    [][(/\ pc = "loop"
        /\ ~TypedDone
        /\ ~TypedNumber) =>
            /\ msg' = InvalidNumber
            /\ pc' = "loop"
            /\ result' = Running
            /\ files_info' = files_info
            /\ disk' = disk
            /\ removed' = removed]_vars

\* C8's case: after a deletion a negative number was typed and the loop
\* goes on with the records left.
C8_Witness ==
    /\ pc = "loop"
    /\ msg = InvalidNumber
    /\ answer = <<"-", "1", "\n">>
    /\ Len(removed) = 1
    /\ Len(files_info) = 2

\* C9: a listed number i takes record i out of the collection by swap-remove:
\* the last record moves into slot i, every other record keeps its slot, and
\* the file deleted is that of the record slot i held when the number was
\* typed, so that later numbers count in the collection as it then is.
C9_SwapRemove ==
    [][TypedListed =>
            /\ files_info' =
                 [j \in 1..(Len(files_info) - 1) |->
                    IF j = TypedIndex THEN files_info[Len(files_info)]
                    ELSE files_info[j]]
            /\ (removed' # removed) =>
                  removed' = Append(removed, files_info[TypedIndex].path)]_vars

\* C9's case: of three records, 1 was typed twice: the first and then the
\* formerly last record were deleted, the second is left.
C9_Witness ==
    /\ pc = "loop"
    /\ Len(initial) = 3
    /\ answer = <<"1", "\n">>
    /\ removed = <<initial[1].path, initial[3].path>>
    /\ files_info = <<initial[2]>>

\* C10: whatever the user types, every file deleted is one of a record of
\* the traversal's result, none is deleted twice, the deleted files are gone
\* from the disk and nothing else is, at every prompt of the loop the
\* collection holds exactly the records of the result not yet deleted, so
\* at most as many deletions happen as the result had records; and with the
\* collection empty every number ends the loop.
C10_LoopInvariant ==
    /\ [](/\ \A k \in 1..Len(removed) : removed[k] \in PathsOf(initial)
          /\ \A k, l \in 1..Len(removed) : k # l => removed[k] # removed[l]
          /\ Len(removed) <= Len(initial)
          /\ disk = [p \in DOMAIN disk0 \ {removed[k] : k \in 1..Len(removed)}
                       |-> disk0[p]]
          /\ (pc = "loop") =>
                /\ {files_info[i] : i \in 1..Len(files_info)} =
                     {initial[i] : i \in {j \in 1..Len(initial) :
                         \A k \in 1..Len(removed) : removed[k] # initial[j].path}}
                /\ Len(files_info) = Len(initial) - Len(removed))
    /\ [][(pc = "loop" /\ files_info = <<>> /\ TypedNumber) =>
            pc' = "exit"]_vars

\* C10's case: all three records of the result were deleted, and the next
\* number ended the loop.
C10_Witness ==
    /\ pc = "exit"
    /\ msg = NotListed
    /\ Len(initial) = 3
    /\ Len(removed) = 3
    /\ files_info = <<>>

====
